---- MODULE Spec2Model ----
(***************************************************************************)
(* Model of src/src/logistics_planner.py: the shipments table of the       *)
(* LogisticsPlanner and its operations create_shipment, assign_carrier,    *)
(* update_status, get_shipments, optimize_batch and delivery_stats.        *)
(*                                                                         *)
(* Conventions                                                             *)
(*  - Python's None is None == <<>>, a present value x is Some(x) == <<x>>.*)
(*  - Time is counted in ticks, TicksPerDay ticks to a day.  The ISO-8601  *)
(*    text written by datetime.isoformat() is the pair <<date, time>> of   *)
(*    the day number and the tick within the day; texts are compared       *)
(*    field by field from the left, as the TEXT column is by SQLite.       *)
(*  - Values that the code rounds to one decimal with round(x, 1) are      *)
(*    integers counting tenths (333 is 33.3).                              *)
(*  - The table is the sequence of its rows in rowid (insertion) order.    *)
(*  - The database file is shared: the calls of several connections       *)
(*    (processes) interleave.  Every call but optimize_batch runs one SQL  *)
(*    statement and is one step, the step of that statement.               *)
(*    optimize_batch runs one SELECT for each requested id, outside any    *)
(*    transaction: it is one step for each SELECT, and the calls of        *)
(*    another connection may come between them.                            *)
(*  - create_shipment and assign_carrier read the clock before they open   *)
(*    the connection and wait for the write lock: the value they write is  *)
(*    the clock's at the read, any instant from 0 (the earliest a call in  *)
(*    progress began) to the instant of the statement.                     *)
(*  - delivery_stats reads the clock after its SELECT, once for each       *)
(*    delivered row with an eta; the clock may advance between the reads.  *)
(***************************************************************************)
EXTENDS Integers, Sequences, FiniteSets, TLC

VARIABLES
    shipments,  \* the shipments table
    now,        \* the clock datetime.utcnow() reads
    call,       \* the last call that returned: its arguments and its outcome
    assigned,   \* ids of the rows an assign_carrier call has updated
    batch       \* the optimize_batch call in progress, if any

vars == <<shipments, now, call, assigned, batch>>

-----------------------------------------------------------------------------
(* Bounds *)

\* Most rows the table is let grow to.
MaxShipments == 2

\* Last instant the clock reaches.
MaxTime == 1

\* Resolution of the clock: ticks to a day.
TicksPerDay == 2

-----------------------------------------------------------------------------
(* Program constants *)

SHIPMENT_STATUSES ==
    {"pending", "picked_up", "in_transit", "out_for_delivery", "delivered", "exception"}

PRIORITIES == {"standard", "express", "overnight"}

CARRIERS == {"fedex", "ups", "usps", "dhl", "blackroad-express"}

-----------------------------------------------------------------------------
(* Optional values and truthiness *)

None == <<>>

Some(x) == <<x>>

\* Python truth value of an Optional[str]: None and "" are false.
Truthy(o) == o # None /\ o[1] # ""

-----------------------------------------------------------------------------
(* Time *)

\* datetime.isoformat(): the text of the instant t.
isoformat(t) == <<t \div TicksPerDay, t % TicksPerDay>>

\* datetime.fromisoformat(): the instant a text denotes.
fromisoformat(s) == s[1] * TicksPerDay + s[2]

\* timedelta(days = d) in ticks.
timedelta(d) == d * TicksPerDay

\* A day count that drops the fraction of the difference (rounds toward zero).
TimedeltaDaysTowardZero(dt) ==
    IF dt >= 0 THEN dt \div TicksPerDay ELSE -((-dt) \div TicksPerDay)

\* timedelta.days of a difference of dt ticks: timedelta is normalised so
\* that the remainder is non-negative, i.e. the day count is the floor.
TimedeltaDays(dt) == dt \div TicksPerDay

\* Order of two ISO texts as TEXT values (left to right).
TextLess(a, b) == a[1] < b[1] \/ (a[1] = b[1] /\ a[2] < b[2])

-----------------------------------------------------------------------------
(* Inputs *)

\* Shipment ids: opaque strings.  One more than the table can hold, so that an
\* id that is not stored always exists.
IdOf(i) == "id" \o ToString(i)

IdPool == {IdOf(i) : i \in 1..(MaxShipments + 1)}

\* Arguments of create_shipment; "same-day" is no priority.
Orders ==
    { [origin |-> "NYC", destination |-> "LAX", weight_kg |-> 12, priority |-> "express"],
      [origin |-> "CHI", destination |-> "CHI", weight_kg |-> 0,  priority |-> "same-day"] }

\* Arguments of assign_carrier; "acme" is no carrier.
Assignments ==
    { [carrier |-> "fedex", tracking_id |-> "TRK1", eta_days |-> -1],
      [carrier |-> "fedex", tracking_id |-> "TRK1", eta_days |-> 0],
      [carrier |-> "fedex", tracking_id |-> "TRK1", eta_days |-> 1],
      [carrier |-> "ups",   tracking_id |-> "",     eta_days |-> 1],
      [carrier |-> "acme",  tracking_id |-> "TRK2", eta_days |-> 1] }

\* Arguments of update_status; "returned" is no status.
StatusInputs == {"delivered", "exception", "returned"}

\* Arguments of the calls that build the tables the queries are run on.
ListOrders ==
    { [origin |-> "NYC", destination |-> "LAX", weight_kg |-> 12, priority |-> "standard"],
      [origin |-> "XXX", destination |-> "NYC", weight_kg |-> -3, priority |-> "express"] }

ListStatuses == {"delivered"}

BatchAssignments ==
    { [carrier |-> "fedex", tracking_id |-> "TRK1", eta_days |-> 0],
      [carrier |-> "ups",   tracking_id |-> "TRK2", eta_days |-> 0] }

\* Arguments of the calls that build the tables on which the eta written by
\* assign_carrier is looked at.
ClockAssignments ==
    { [carrier |-> "fedex", tracking_id |-> "TRK1", eta_days |-> -1],
      [carrier |-> "ups",   tracking_id |-> "",     eta_days |-> 0] }

ClockStatuses == {"delivered", "exception"}

TransitAssignments ==
    { [carrier |-> "fedex", tracking_id |-> "TRK1", eta_days |-> -1],
      [carrier |-> "fedex", tracking_id |-> "TRK1", eta_days |-> 0],
      [carrier |-> "fedex", tracking_id |-> "TRK1", eta_days |-> 1] }

StatsOrders ==
    { [origin |-> "NYC", destination |-> "LAX", weight_kg |-> 12, priority |-> "standard"] }

StatsAssignments ==
    { [carrier |-> "fedex", tracking_id |-> "TRK1", eta_days |-> -1],
      [carrier |-> "fedex", tracking_id |-> "TRK1", eta_days |-> 0] }

StatsStatuses == {"delivered"}

\* Arguments of get_shipments; "lost" is no status.
StatusFilters == {None, Some(""), Some("delivered"), Some("lost")}

PriorityFilters == {None, Some(""), Some("express")}

\* Arguments of optimize_batch: lists with an id twice and with an id that is
\* not stored.
BatchInputs ==
    { <<>>,
      <<IdOf(1), IdOf(MaxShipments + 1), IdOf(2)>>,
      <<IdOf(2), IdOf(1), IdOf(2)>> }

-----------------------------------------------------------------------------
(* Helpers on the table *)

Range(s) == {s[i] : i \in 1..Len(s)}

StoredIds == {shipments[i].id : i \in 1..Len(shipments)}

\* Rows selected by "WHERE id = ?", in rowid order.
RowsWithId(tbl, sid) == SelectSeq(tbl, LAMBDA r : r.id = sid)

\* Shipment(...) as built by create_shipment: optional fields default to None,
\* created_at defaults to utcnow().isoformat().
Shipment(sid, order, t) ==
    [id |-> sid, origin |-> order.origin, destination |-> order.destination,
     weight_kg |-> order.weight_kg, priority |-> order.priority,
     status |-> "pending", eta |-> None, carrier |-> None,
     tracking_id |-> None, created_at |-> isoformat(t)]

Idle == [op |-> "idle"]

NoBatch == [open |-> FALSE]

\* The optimize_batch call in progress after a statement of another call that
\* left the table tbl2 in place of tbl: it has no longer read one table.
Interleaved(b, tbl, tbl2) ==
    IF b.open /\ tbl2 # tbl THEN [b EXCEPT !.clean = FALSE] ELSE b

\* A new database; the clock shows any time.
Init ==
    /\ shipments = <<>>
    /\ now \in 0..MaxTime
    /\ call = Idle
    /\ assigned = {}
    /\ batch = NoBatch

-----------------------------------------------------------------------------
(* Mutating operations *)

\* create_shipment on a table whose id column is no key: the row is inserted
\* also when its id is stored already.
create_shipment_no_key(order, newid, t) ==
    /\ t \in 0..now
    /\ Len(shipments) < MaxShipments
    /\ order.priority \in PRIORITIES
    /\ shipments' = Append(shipments,
            [id |-> newid, origin |-> order.origin, destination |-> order.destination,
             weight_kg |-> order.weight_kg, priority |-> order.priority,
             status |-> "pending", eta |-> None, carrier |-> None,
             tracking_id |-> None, created_at |-> isoformat(t)])
    /\ call' = [op |-> "create_shipment", args |-> order, read |-> Some(t),
                err |-> "none", result |-> Some(newid)]
    /\ batch' = Interleaved(batch, shipments, shipments')
    /\ UNCHANGED <<now, assigned>>

\* create_shipment(origin, destination, weight_kg, priority); newid is the
\* value of str(uuid.uuid4())[:8] and t the clock read by Shipment(...), both
\* taken before the connection is opened; the step is the INSERT.
create_shipment(order, newid, t) ==
    /\ t \in 0..now
    /\ \/ order.priority \notin PRIORITIES
       \/ newid \in StoredIds
       \/ Len(shipments) < MaxShipments
    /\ IF order.priority \notin PRIORITIES
       THEN \* raised before the id and the clock are read
            /\ call' = [op |-> "create_shipment", args |-> order, read |-> None,
                        err |-> "ValueError", result |-> None]
            /\ UNCHANGED shipments
       ELSE IF newid \in StoredIds
       THEN \* id TEXT PRIMARY KEY: the INSERT fails
            /\ call' = [op |-> "create_shipment", args |-> order, read |-> Some(t),
                        err |-> "IntegrityError", result |-> Some(newid)]
            /\ UNCHANGED shipments
       ELSE /\ shipments' = Append(shipments, Shipment(newid, order, t))
            /\ call' = [op |-> "create_shipment", args |-> order, read |-> Some(t),
                        err |-> "none", result |-> Some(newid)]
    /\ batch' = Interleaved(batch, shipments, shipments')
    /\ UNCHANGED <<now, assigned>>

\* Status of the row with the given id before a call, None if there is none.
StatusOf(tbl, sid) ==
    IF RowsWithId(tbl, sid) = <<>> THEN None ELSE Some(RowsWithId(tbl, sid)[1].status)

\* The UPDATE of assign_carrier applied only to rows that are still pending.
SetCarrierIfPending(tbl, sid, carrier, tracking_id, eta) ==
    [i \in 1..Len(tbl) |->
        IF tbl[i].id = sid /\ tbl[i].status = "pending"
        THEN [tbl[i] EXCEPT !.carrier = Some(carrier), !.tracking_id = Some(tracking_id),
                            !.eta = Some(eta), !.status = "picked_up"]
        ELSE tbl[i]]

\* UPDATE shipments SET carrier = ?, tracking_id = ?, eta = ?, status = ? WHERE id = ?
SetCarrier(tbl, sid, carrier, tracking_id, eta) ==
    [i \in 1..Len(tbl) |->
        IF tbl[i].id = sid
        THEN [tbl[i] EXCEPT !.carrier = Some(carrier), !.tracking_id = Some(tracking_id),
                            !.eta = Some(eta), !.status = "picked_up"]
        ELSE tbl[i]]

\* assign_carrier with the UPDATE before the validation of the carrier.
assign_carrier_write_first(sid, carrier, tracking_id, eta_days, t) ==
    /\ t \in 0..now
    /\ shipments' = SetCarrier(shipments, sid, carrier, tracking_id,
                               isoformat(t + timedelta(eta_days)))
    /\ call' = [op |-> "assign_carrier",
                args |-> [id |-> sid, carrier |-> carrier,
                          tracking_id |-> tracking_id, eta_days |-> eta_days],
                was |-> StatusOf(shipments, sid), read |-> Some(t),
                err |-> IF carrier \in CARRIERS THEN "none" ELSE "ValueError"]
    /\ assigned' = assigned \cup ({sid} \cap StoredIds)
    /\ batch' = Interleaved(batch, shipments, shipments')
    /\ UNCHANGED now

\* assign_carrier(shipment_id, carrier, tracking_id, eta_days); t is the clock
\* read for the eta, taken before the connection is opened; the step is the
\* UPDATE.
assign_carrier(sid, carrier, tracking_id, eta_days, t) ==
    /\ t \in 0..now
    /\ IF carrier \notin CARRIERS
       THEN \* raised before the clock is read
            /\ call' = [op |-> "assign_carrier",
                        args |-> [id |-> sid, carrier |-> carrier,
                                  tracking_id |-> tracking_id, eta_days |-> eta_days],
                        was |-> StatusOf(shipments, sid), read |-> None,
                        err |-> "ValueError"]
            /\ UNCHANGED <<shipments, assigned>>
       ELSE /\ shipments' = SetCarrier(shipments, sid, carrier, tracking_id,
                                       isoformat(t + timedelta(eta_days)))
            /\ call' = [op |-> "assign_carrier",
                        args |-> [id |-> sid, carrier |-> carrier,
                                  tracking_id |-> tracking_id, eta_days |-> eta_days],
                        was |-> StatusOf(shipments, sid), read |-> Some(t),
                        err |-> "none"]
            /\ assigned' = assigned \cup ({sid} \cap StoredIds)
    /\ batch' = Interleaved(batch, shipments, shipments')
    /\ UNCHANGED now

\* The UPDATE of update_status without its WHERE clause.
SetStatusNoWhere(tbl, sid, status) ==
    [i \in 1..Len(tbl) |-> [tbl[i] EXCEPT !.status = status]]

\* The UPDATE of update_status with a transition table: a delivered row keeps
\* its status.
SetStatusGuarded(tbl, sid, status) ==
    [i \in 1..Len(tbl) |->
        IF tbl[i].id = sid /\ tbl[i].status # "delivered"
        THEN [tbl[i] EXCEPT !.status = status] ELSE tbl[i]]

\* The UPDATE of update_status clearing the assignment of a row that goes to
\* exception.
SetStatusClearsCarrier(tbl, sid, status) ==
    [i \in 1..Len(tbl) |->
        IF tbl[i].id = sid
        THEN IF status = "exception"
             THEN [tbl[i] EXCEPT !.status = status, !.carrier = None, !.eta = None]
             ELSE [tbl[i] EXCEPT !.status = status]
        ELSE tbl[i]]

\* UPDATE shipments SET status = ? WHERE id = ?
SetStatus(tbl, sid, status) ==
    [i \in 1..Len(tbl) |->
        IF tbl[i].id = sid THEN [tbl[i] EXCEPT !.status = status] ELSE tbl[i]]

update_status(sid, status) ==
    /\ IF status \notin SHIPMENT_STATUSES
       THEN /\ call' = [op |-> "update_status", args |-> [id |-> sid, status |-> status],
                        was |-> StatusOf(shipments, sid), err |-> "ValueError"]
            /\ UNCHANGED shipments
       ELSE /\ shipments' = SetStatus(shipments, sid, status)
            /\ call' = [op |-> "update_status", args |-> [id |-> sid, status |-> status],
                        was |-> StatusOf(shipments, sid), err |-> "none"]
    /\ batch' = Interleaved(batch, shipments, shipments')
    /\ UNCHANGED <<now, assigned>>

-----------------------------------------------------------------------------
(* Queries *)

\* ORDER BY created_at DESC: SQLite sorts the scanned rows and keeps rows with
\* equal keys in scan (rowid) order.
InsertDesc(s, r) ==
    LET k == Cardinality({i \in 1..Len(s) : ~TextLess(s[i].created_at, r.created_at)})
    IN  SubSeq(s, 1, k) \o <<r>> \o SubSeq(s, k + 1, Len(s))

RECURSIVE OrderByCreatedDesc(_)
OrderByCreatedDesc(rows) ==
    IF rows = <<>> THEN <<>>
    ELSE InsertDesc(OrderByCreatedDesc(SubSeq(rows, 1, Len(rows) - 1)), rows[Len(rows)])

\* The rows get_shipments selects: a filter is added to the query only when
\* its argument is truthy.
Selected(tbl, status, priority) ==
    SelectSeq(tbl, LAMBDA r :
        /\ (Truthy(status) => r.status = status[1])
        /\ (Truthy(priority) => r.priority = priority[1]))

get_shipments(status, priority) ==
    /\ call' = [op |-> "get_shipments", args |-> [status |-> status, priority |-> priority],
                result |-> OrderByCreatedDesc(Selected(shipments, status, priority))]
    /\ UNCHANGED <<shipments, now, assigned, batch>>

\* cursor.fetchone() of SELECT * FROM shipments WHERE id = ?, appended to the
\* list if it is a row.
Fetched(tbl, sid) ==
    IF RowsWithId(tbl, sid) = <<>> THEN <<>> ELSE <<RowsWithId(tbl, sid)[1]>>

\* A grouping that files the rows without a carrier under the key "unassigned".
CountByCarrierOrNone(rows) ==
    [c \in {IF Truthy(r.carrier) THEN r.carrier[1] ELSE "unassigned" : r \in Range(rows)} |->
        Len(SelectSeq(rows, LAMBDA r : IF Truthy(r.carrier) THEN r.carrier[1] = c
                                       ELSE c = "unassigned"))]

\* {carrier: len(ships)}: one key per carrier a row has (rows whose carrier
\* is falsy are skipped).
CountByCarrier(rows) ==
    [c \in {r.carrier[1] : r \in {x \in Range(rows) : Truthy(x.carrier)}} |->
        Len(SelectSeq(rows, LAMBDA r : r.carrier = Some(c)))]

CountByPriority(rows) ==
    [p \in {r.priority : r \in Range(rows)} |->
        Len(SelectSeq(rows, LAMBDA r : r.priority = p))]

BatchSummary(rows) ==
    [total_shipments |-> Len(rows),
     by_carrier |-> CountByCarrier(rows),
     by_priority |-> CountByPriority(rows)]

\* optimize_batch(shipment_ids) opens its connection; nothing is read yet.
optimize_batch(ids) ==
    /\ ~batch.open
    /\ batch' = [open |-> TRUE, ids |-> ids, todo |-> ids, rows |-> <<>>,
                 hits |-> <<>>, clean |-> TRUE]
    /\ UNCHANGED <<shipments, now, call, assigned>>

\* One turn of the loop: the SELECT for the next requested id.
optimize_batch_select ==
    /\ batch.open
    /\ batch.todo # <<>>
    /\ batch' = [batch EXCEPT
            !.todo = Tail(@),
            !.rows = @ \o Fetched(shipments, Head(batch.todo)),
            !.hits = IF Fetched(shipments, Head(batch.todo)) = <<>> THEN @
                     ELSE Append(@, Len(batch.ids) - Len(batch.todo) + 1)]
    /\ UNCHANGED <<shipments, now, call, assigned>>

\* After the loop: the groups are counted and the summary is returned.  The
\* call record keeps the rows as they were read, the positions of the
\* requested ids that gave a row, and whether the table stayed the same.
optimize_batch_return ==
    /\ batch.open
    /\ batch.todo = <<>>
    /\ call' = [op |-> "optimize_batch", args |-> batch.ids, rows |-> batch.rows,
                hits |-> batch.hits, clean |-> batch.clean,
                result |-> BatchSummary(batch.rows)]
    /\ batch' = NoBatch
    /\ UNCHANGED <<shipments, now, assigned>>

-----------------------------------------------------------------------------
(* Rounding of float quotients *)

\* 2^k modulo n.
RECURSIVE Pow2Mod(_, _)
Pow2Mod(k, n) == IF k = 0 THEN 1 % n ELSE (2 * Pow2Mod(k - 1, n)) % n

RECURSIVE DoublingsBelow(_, _)
DoublingsBelow(num, den) == IF 2 * den <= num THEN 1 + DoublingsBelow(num, 2 * den) ELSE 0

RECURSIVE DoublingsToReach(_, _)
DoublingsToReach(num, den) == IF num >= den THEN 0 ELSE 1 + DoublingsToReach(2 * num, den)

\* The binary exponent e of num / den > 0: 2^e <= num / den < 2^(e + 1).
Log2Floor(num, den) ==
    IF num >= den THEN DoublingsBelow(num, den) ELSE -DoublingsToReach(num, den)

\* The rounding error of the float quotient num / den (num, den > 0), a double
\* with a 53 bit significand rounded to nearest: the s with
\* float(num / den) = num / den + s / (den * 2^k), k = 52 - Log2Floor(num, den).
FloatDivError(num, den) ==
    LET k == 52 - Log2Floor(num, den)
        r == (num * Pow2Mod(k, den)) % den
    IN  IF r = 0 THEN 0 ELSE IF 2 * r < den THEN -r ELSE den - r

\* round(num / den, 1) in tenths, den > 0: the tenth nearest to the float
\* quotient.  When num / den lies halfway between two tenths, the float is that
\* value exactly and is rounded half to even, or it is off by its rounding
\* error and is rounded to the side it is off to.
RoundDiv1(num, den) ==
    LET a == IF num >= 0 THEN num ELSE -num
        q == (10 * a) \div den
        r == (10 * a) % den
        m == IF 2 * r < den THEN q
             ELSE IF 2 * r > den THEN q + 1
             ELSE IF FloatDivError(a, den) > 0 THEN q + 1
             ELSE IF FloatDivError(a, den) < 0 THEN q
             ELSE IF q % 2 = 0 THEN q ELSE q + 1
    IN  IF num >= 0 THEN m ELSE -m

\* round(c / n * 100, 1) in tenths, c >= 0, n > 0: the float quotient c / n is
\* multiplied by 100, rounded to a float again, and that float is rounded to
\* the nearest tenth.  Only when 100 c / n lies halfway between two tenths, at
\* T = (2 q + 1) / 20, can the float fall on the other side.  In units of the
\* float's last place the product is M + P / D before it is rounded, where M
\* is the whole part of T and P / D its fraction (a fifth, or nothing when T
\* is a float) plus 100 times the error of the quotient; R is P / D rounded to
\* a whole number, to the even float on a tie.  Below T = 0.25, a power of
\* two, the floats are twice as dense.
RoundPct1(c, n) ==
    LET q == (1000 * c) \div n
        r == (1000 * c) % n
        s == FloatDivError(c, n)
        eT == Log2Floor(2 * q + 1, 20)
        sh == eT - Log2Floor(c, n)
        a10 == ((2 * q + 1) * Pow2Mod(50 - eT, 10)) % 10
        a5 == a10 % 5
        P == a5 * n * 2^sh + 500 * s * (IF q = 2 /\ s < 0 THEN 2 ELSE 1)
        D == 5 * n * 2^sh
        m == P \div D
        odd == ((IF a10 >= 5 THEN 1 ELSE 0) + m) % 2 = 1
        R == IF 2 * (P % D) < D THEN m
             ELSE IF 2 * (P % D) > D THEN m + 1
             ELSE IF odd THEN m + 1 ELSE m
    IN  IF c = 0 THEN 0
        ELSE IF 2 * r < n THEN q
        ELSE IF 2 * r > n THEN q + 1
        ELSE IF a5 > 0 THEN (IF R >= 1 THEN q + 1 ELSE q)
        ELSE IF R = 0 THEN (IF q % 2 = 0 THEN q ELSE q + 1)
        ELSE IF R >= 1 THEN q + 1 ELSE q

-----------------------------------------------------------------------------
(* Statistics *)

\* The clock values the loop over the delivered rows may read, one for each
\* of k rows, the first not before t: the clock does not go back.
RECURSIVE ClockReads(_, _)
ClockReads(k, t) ==
    IF k = 0 THEN {<<>>}
    ELSE UNION {{<<u>> \o rest : rest \in ClockReads(k - 1, u)} : u \in t..MaxTime}

\* The delivered rows for which the clock is read: those with an eta.
RowsTimed(rows) == SelectSeq(rows, LAMBDA s : s.status = "delivered" /\ Truthy(s.eta))

\* Number of delivered rows with an eta that is not before the clock value
\* read for that row.
OnTimeCount(delivered, reads) ==
    LET withEta == SelectSeq(delivered, LAMBDA s : Truthy(s.eta))
    IN  Cardinality({j \in 1..Len(withEta) : fromisoformat(withEta[j].eta[1]) >= reads[j]})

\* on_time_count / len(delivered) * 100, rounded; 0 without delivered rows.
OnTimeRate(delivered, reads) ==
    IF delivered # <<>> THEN RoundPct1(OnTimeCount(delivered, reads), Len(delivered)) ELSE 0

\* transit_times: (eta - created_at).days of the delivered rows with an eta.
TransitDays(s) == TimedeltaDays(fromisoformat(s.eta[1]) - fromisoformat(s.created_at))

TransitTimes(delivered) ==
    LET withEta == SelectSeq(delivered, LAMBDA s : Truthy(s.eta))
    IN  [i \in 1..Len(withEta) |-> TransitDays(withEta[i])]

RECURSIVE SumSeq(_)
SumSeq(s) == IF s = <<>> THEN 0 ELSE Head(s) + SumSeq(Tail(s))

AvgTransitDays(delivered) ==
    IF TransitTimes(delivered) # <<>>
    THEN RoundDiv1(SumSeq(TransitTimes(delivered)), Len(TransitTimes(delivered)))
    ELSE 0

\* carrier -> delivery_rate, over the carriers that appear on a row.
CarrierPerformance(rows) ==
    [c \in DOMAIN CountByCarrier(rows) |->
        [delivery_rate |->
            RoundPct1(Len(SelectSeq(rows, LAMBDA r :
                                        r.carrier = Some(c) /\ r.status = "delivered")),
                      CountByCarrier(rows)[c])]]

StatsSummary(rows, reads) ==
    LET delivered == SelectSeq(rows, LAMBDA s : s.status = "delivered")
        exception == SelectSeq(rows, LAMBDA s : s.status = "exception")
    IN  [total_shipments |-> Len(rows),
         delivered |-> Len(delivered),
         in_exception |-> Len(exception),
         on_time_rate_pct |-> OnTimeRate(delivered, reads),
         avg_transit_days |-> AvgTransitDays(delivered),
         by_carrier |-> CarrierPerformance(rows)]

\* delivery_stats(); reads are the values of datetime.utcnow() in the loop.
delivery_stats(reads) ==
    /\ reads \in ClockReads(Len(RowsTimed(shipments)), now)
    /\ call' = [op |-> "delivery_stats", reads |-> reads,
                result |-> StatsSummary(shipments, reads)]
    /\ now' = IF reads = <<>> THEN now ELSE reads[Len(reads)]
    /\ UNCHANGED <<shipments, assigned, batch>>

-----------------------------------------------------------------------------
\* Passage of time between calls (datetime.utcnow() is read by the calls).
Tick ==
    /\ now < MaxTime
    /\ now' = now + 1
    /\ call' = Idle
    /\ UNCHANGED <<shipments, assigned, batch>>

-----------------------------------------------------------------------------
(* Specifications *)

\* Values of str(uuid.uuid4())[:8]: an id already stored (a collision) or a new
\* one.  Ids are opaque and only compared for equality, so the new ids are named
\* in the order they are issued.
GenIds == StoredIds \cup {IdOf(Len(shipments) + 1)}

\* A new database at instant 0: every clock read gives 0.
InitStill == Init /\ now = 0

\* A new database at the last instant: the calls in progress may have read the
\* clock at any instant.
InitLate == Init /\ now = MaxTime

\* The repository: the three mutating operations, valid and invalid arguments,
\* stored and unknown ids, with the clock standing still.
NextRepo ==
    \/ \E order \in Orders, newid \in GenIds, t \in 0..now :
          create_shipment(order, newid, t)
    \/ \E sid \in IdPool, a \in Assignments, t \in 0..now :
          assign_carrier(sid, a.carrier, a.tracking_id, a.eta_days, t)
    \/ \E sid \in IdPool, status \in StatusInputs : update_status(sid, status)

SpecRepo == InitStill /\ [][NextRepo]_vars

\* assign_carrier calls that read the clock at any instant up to their UPDATE,
\* on rows of any status.
NextClock ==
    \/ \E order \in StatsOrders, newid \in GenIds : create_shipment(order, newid, now)
    \/ \E sid \in IdPool, a \in ClockAssignments, t \in 0..now :
          assign_carrier(sid, a.carrier, a.tracking_id, a.eta_days, t)
    \/ \E sid \in IdPool, status \in ClockStatuses : update_status(sid, status)

SpecClock == InitLate /\ [][NextClock]_vars

\* get_shipments on tables built by create_shipment and update_status at
\* different times, by calls that read the clock at any instant up to their
\* INSERT.
NextList ==
    \/ \E order \in ListOrders, newid \in GenIds, t \in 0..now :
          create_shipment(order, newid, t)
    \/ \E sid \in IdPool, status \in ListStatuses : update_status(sid, status)
    \/ \E status \in StatusFilters, priority \in PriorityFilters : get_shipments(status, priority)
    \/ Tick

SpecList == Init /\ [][NextList]_vars

\* optimize_batch on tables built by create_shipment and assign_carrier, which
\* a second connection may also call between two SELECTs of optimize_batch.
\* optimize_batch reads no time: the clock stands still.
NextBatch ==
    \/ \E order \in ListOrders, newid \in GenIds, t \in 0..now :
          create_shipment(order, newid, t)
    \/ \E sid \in IdPool, a \in BatchAssignments, t \in 0..now :
          assign_carrier(sid, a.carrier, a.tracking_id, a.eta_days, t)
    \/ \E ids \in BatchInputs : optimize_batch(ids)
    \/ optimize_batch_select
    \/ optimize_batch_return

SpecBatch == InitStill /\ [][NextBatch]_vars

\* delivery_stats on tables built by the three mutating operations at different
\* times, by calls that read the clock at any instant up to their statement.
NextStats ==
    \/ \E order \in StatsOrders, newid \in GenIds, t \in 0..now :
          create_shipment(order, newid, t)
    \/ \E sid \in IdPool, a \in StatsAssignments, t \in 0..now :
          assign_carrier(sid, a.carrier, a.tracking_id, a.eta_days, t)
    \/ \E sid \in IdPool, status \in StatsStatuses : update_status(sid, status)
    \/ \E reads \in ClockReads(Len(RowsTimed(shipments)), now) : delivery_stats(reads)
    \/ Tick

SpecStats == Init /\ [][NextStats]_vars

\* delivery_stats on rows whose eta lies before, at and after their creation:
\* assign_carrier calls with eta_days of either sign that read the clock at any
\* instant up to their UPDATE.
NextTransit ==
    \/ \E order \in StatsOrders, newid \in GenIds : create_shipment(order, newid, now)
    \/ \E sid \in IdPool, a \in TransitAssignments, t \in 0..now :
          assign_carrier(sid, a.carrier, a.tracking_id, a.eta_days, t)
    \/ \E sid \in IdPool, status \in StatsStatuses : update_status(sid, status)
    \/ \E reads \in ClockReads(Len(RowsTimed(shipments)), now) : delivery_stats(reads)

SpecTransit == InitLate /\ [][NextTransit]_vars

-----------------------------------------------------------------------------
(* Properties of the repository *)

\* The row of the table with the given id (there is at most one).
Row(sid) == RowsWithId(shipments, sid)[1]

\* C1: after assign_carrier(id, carrier, tracking_id, eta_days) with a carrier of
\* the fixed set and the id of a stored row, that row has status picked_up, the
\* carrier and tracking id of the call, and an eta that denotes the time the
\* call read from the clock, which is not later than its UPDATE, plus eta_days
\* days, whatever its status was.
C1_AssignCarrierSetsRow ==
    (call.op = "assign_carrier" /\ call.args.carrier \in CARRIERS /\ call.was # None) =>
        /\ call.err = "none"
        /\ Row(call.args.id).status = "picked_up"
        /\ Row(call.args.id).carrier = Some(call.args.carrier)
        /\ Row(call.args.id).tracking_id = Some(call.args.tracking_id)
        /\ Row(call.args.id).eta # None
        /\ call.read # None /\ call.read[1] <= now
        /\ fromisoformat(Row(call.args.id).eta[1]) =
                call.read[1] + call.args.eta_days * TicksPerDay

\* A delivered row was assigned a carrier with a negative eta_days, by a call
\* that had read the clock before the instant of its UPDATE.
C1_Witness ==
    /\ call.op = "assign_carrier" /\ call.err = "none"
    /\ call.was = Some("delivered")
    /\ call.args.eta_days < 0
    /\ call.read[1] < now
    /\ Row(call.args.id).status = "picked_up"

\* The call just made is one whose priority, carrier or status is outside its
\* fixed set.
InvalidCall(c) ==
    \/ c.op = "create_shipment" /\ c.args.priority \notin PRIORITIES
    \/ c.op = "assign_carrier" /\ c.args.carrier \notin CARRIERS
    \/ c.op = "update_status" /\ c.args.status \notin SHIPMENT_STATUSES

\* C2: a create_shipment, assign_carrier or update_status call with a priority,
\* carrier or status outside its fixed set ends in the invalid-argument error
\* (ValueError) and leaves the table as it was.
C2_InvalidArgumentWritesNothing ==
    [][InvalidCall(call') => call'.err = "ValueError" /\ shipments' = shipments]_vars

\* An assign_carrier call with an unknown carrier for the id of a stored row
\* that has no carrier ended in the error.
C2_Witness ==
    /\ call.op = "assign_carrier" /\ call.err = "ValueError"
    /\ call.was # None
    /\ Row(call.args.id).carrier = None

\* C5: assign_carrier and update_status with a valid carrier or status and an
\* id that no stored row has complete without error and leave the table as it
\* was.
C5_UnknownIdIsNoOp ==
    [][(/\ call'.op \in {"assign_carrier", "update_status"}
        /\ ~InvalidCall(call')
        /\ call'.args.id \notin StoredIds)
       => call'.err = "none" /\ shipments' = shipments]_vars

\* update_status with a valid status and an unknown id completed on a table
\* that holds a row of another status.
C5_Witness ==
    /\ call.op = "update_status" /\ call.err = "none" /\ call.was = None
    /\ call.args.id \notin StoredIds
    /\ \E i \in 1..Len(shipments) : shipments[i].status # call.args.status

\* C6: update_status(id, s) with a status of the fixed set and the id of a
\* stored row sets the status of that row to s whatever it was, and changes no
\* other field of that row and no other row.
C6_UpdateStatusFrame ==
    [][(/\ call'.op = "update_status"
        /\ call'.args.status \in SHIPMENT_STATUSES
        /\ call'.args.id \in StoredIds)
       => /\ call'.err = "none"
          /\ Len(shipments') = Len(shipments)
          /\ \A i \in 1..Len(shipments) :
                IF shipments[i].id = call'.args.id
                THEN /\ shipments'[i].status = call'.args.status
                     /\ \A f \in DOMAIN shipments[i] \ {"status"} :
                            shipments'[i][f] = shipments[i][f]
                ELSE shipments'[i] = shipments[i]]_vars

\* A delivered row with a carrier was set to exception while the table held
\* another row.
C6_Witness ==
    /\ call.op = "update_status" /\ call.err = "none"
    /\ call.was = Some("delivered") /\ call.args.status = "exception"
    /\ Row(call.args.id).status = "exception"
    /\ Row(call.args.id).carrier # None
    /\ Len(shipments) > 1

UniqueIds ==
    \A i, j \in 1..Len(shipments) : shipments[i].id = shipments[j].id => i = j

\* C7: no two stored rows share an id, also after the id generator has returned
\* a stored id; no call removes a row; and every row keeps its id, created_at,
\* origin, destination, weight_kg and priority.
C7_IdsUniqueRowsKept ==
    [][/\ UniqueIds'
       /\ Len(shipments') >= Len(shipments)
       /\ \A i \in 1..Len(shipments) :
            \A f \in {"id", "created_at", "origin", "destination", "weight_kg", "priority"} :
                shipments'[i][f] = shipments[i][f]]_vars

\* The id generator returned the id of a stored row, and the table also holds
\* a row that calls have changed.
C7_Witness ==
    /\ call.op = "create_shipment" /\ call.err = "IntegrityError"
    /\ call.result[1] \in StoredIds
    /\ \E i \in 1..Len(shipments) : shipments[i].status = "delivered" /\ shipments[i].carrier # None

\* C8: a row that create_shipment has just stored is pending and has no eta,
\* carrier or tracking id; a row no assign_carrier call has updated has none of
\* the three; a row one has updated has a carrier and an eta.
C8_OptionalFieldsSetByAssignOnly ==
    /\ (call.op = "create_shipment" /\ call.err = "none") =>
            /\ shipments # <<>>
            /\ shipments[Len(shipments)].id = call.result[1]
            /\ shipments[Len(shipments)].status = "pending"
            /\ shipments[Len(shipments)].eta = None
            /\ shipments[Len(shipments)].carrier = None
            /\ shipments[Len(shipments)].tracking_id = None
    /\ \A i \in 1..Len(shipments) :
            IF shipments[i].id \in assigned
            THEN shipments[i].carrier # None /\ shipments[i].eta # None
            ELSE /\ shipments[i].eta = None
                 /\ shipments[i].carrier = None
                 /\ shipments[i].tracking_id = None

\* update_status has acted on a row with a carrier and on a row without one.
C8_Witness ==
    /\ \E i \in 1..Len(shipments) :
            /\ shipments[i].id \in assigned
            /\ shipments[i].status = "exception"
            /\ shipments[i].carrier # None
    /\ \E i \in 1..Len(shipments) :
            /\ shipments[i].id \notin assigned
            /\ shipments[i].status = "delivered"
            /\ shipments[i].eta = None

-----------------------------------------------------------------------------
(* Properties of the queries *)

\* C4 as claimed: get_shipments(status, priority) returns exactly the stored
\* rows that have the status, if one is supplied, and the priority, if one is
\* supplied; every supplied value, whatever string it is, constrains the result.
C4_EverySuppliedFilterConstrains ==
    call.op = "get_shipments" =>
        LET want == {r \in Range(shipments) :
                        /\ (call.args.status = None \/ r.status = call.args.status[1])
                        /\ (call.args.priority = None \/ r.priority = call.args.priority[1])}
        IN  /\ Range(call.result) = want
            /\ Len(call.result) = Cardinality(want)

\* Positions of the requested ids that a stored row has.
Resolved(ids) == {i \in 1..Len(ids) : ids[i] \in StoredIds}

RECURSIVE SumOf(_)
SumOf(f) ==
    IF DOMAIN f = {} THEN 0
    ELSE LET k == CHOOSE k \in DOMAIN f : TRUE
         IN  f[k] + SumOf([j \in DOMAIN f \ {k} |-> f[j]])

\* C10: optimize_batch(ids) resolves only requested ids that are stored, in
\* the order of the request and once for each time they are requested, and
\* skips the others; when no other call changed the table meanwhile, it
\* resolves every requested id that is stored, to its row.  total_shipments
\* is the number of resolved records, by_carrier[c] the number of them with
\* carrier c (records without a carrier are left out, no key maps to 0),
\* by_priority[p] the number with priority p; the by_priority counts add up
\* to total_shipments and the by_carrier counts to the number of resolved
\* records with a carrier.
C10_BatchCounts ==
    call.op = "optimize_batch" =>
        LET ids == call.args
            rows == call.rows
            hits == call.hits
            res == call.result
            all == 1..Len(rows)
            withCarrier == {j \in all : rows[j].carrier # None}
        IN  /\ Len(hits) = Len(rows)
            /\ \A j \in all : hits[j] \in Resolved(ids) /\ rows[j].id = ids[hits[j]]
            /\ \A j, k \in all : j < k => hits[j] < hits[k]
            /\ call.clean =>
                    /\ Range(hits) = Resolved(ids)
                    /\ \A j \in all : rows[j] = Row(ids[hits[j]])
            /\ res.total_shipments = Len(rows)
            /\ DOMAIN res.by_carrier = {rows[j].carrier[1] : j \in withCarrier}
            /\ \A c \in DOMAIN res.by_carrier :
                    /\ res.by_carrier[c] =
                         Cardinality({j \in withCarrier : rows[j].carrier = Some(c)})
                    /\ res.by_carrier[c] > 0
            /\ DOMAIN res.by_priority = {rows[j].priority : j \in all}
            /\ \A q \in DOMAIN res.by_priority :
                    res.by_priority[q] = Cardinality({j \in all : rows[j].priority = q})
            /\ SumOf(res.by_carrier) = Cardinality(withCarrier)
            /\ SumOf(res.by_priority) = res.total_shipments

\* A batch, read with no write in between, with an id that is not stored, a
\* row with a carrier and a row without one.
C10_Witness ==
    /\ call.op = "optimize_batch"
    /\ call.clean
    /\ \E i \in 1..Len(call.args) : call.args[i] \notin StoredIds
    /\ \E i \in Resolved(call.args) : Row(call.args[i]).carrier = None
    /\ \E i \in Resolved(call.args) : Row(call.args[i]).carrier # None
    /\ call.result.total_shipments = 2

\* A batch that requested one id twice and read its row before and after an
\* assign_carrier call of another connection.
BatchSawTwoVersions ==
    /\ call.op = "optimize_batch"
    /\ \E j, k \in 1..Len(call.rows) :
            /\ call.rows[j].id = call.rows[k].id
            /\ call.rows[j].carrier = None
            /\ call.rows[k].carrier # None

-----------------------------------------------------------------------------
(* Properties of the statistics *)

\* Rows delivery_stats takes as delivered, and those of them with an eta.
Delivered == {i \in 1..Len(shipments) : shipments[i].status = "delivered"}

DeliveredWithEta == {i \in Delivered : shipments[i].eta # None}

\* v, a number of tenths, is num / den rounded to one decimal.
IsRounded(v, num, den) ==
    /\ 2 * (10 * num - v * den) <= den
    /\ 2 * (v * den - 10 * num) <= den

\* The clock value delivery_stats read for row i, a delivered row with an eta.
ReadFor(i) == call.reads[Cardinality({j \in DeliveredWithEta : j <= i})]

\* C3 as claimed: the on-time rate is the percentage of the delivered rows with
\* an eta whose eta is not before the time of its evaluation, delivered rows
\* without an eta not counted; it is 0 when no row is delivered.
C3_OnTimeRateOverRowsWithEta ==
    call.op = "delivery_stats" =>
        /\ Delivered = {} => call.result.on_time_rate_pct = 0
        /\ DeliveredWithEta # {} =>
              IsRounded(call.result.on_time_rate_pct,
                        100 * Cardinality({i \in DeliveredWithEta :
                                             fromisoformat(shipments[i].eta[1]) >= ReadFor(i)}),
                        Cardinality(DeliveredWithEta))

\* Whole days in dt ticks, rounded down: the d with d days <= dt < d + 1 days.
FloorDays(dt) ==
    CHOOSE d \in -(MaxTime + 2)..(MaxTime + 2) :
        d * TicksPerDay <= dt /\ dt < (d + 1) * TicksPerDay

\* Whole days in dt ticks with the fraction dropped.
TruncDays(dt) == IF dt >= 0 THEN FloorDays(dt) ELSE -FloorDays(-dt)

\* Ticks from the creation of row i to its eta.
EtaAfterCreation(i) ==
    fromisoformat(shipments[i].eta[1]) - fromisoformat(shipments[i].created_at)

\* C9 as claimed: avg_transit_days is the mean, over the delivered rows with an
\* eta, of eta - created_at with the fraction of a day dropped (toward zero);
\* 0 when there is no such row.
C9_TransitTruncatedTowardZero ==
    call.op = "delivery_stats" =>
        IF DeliveredWithEta = {} THEN call.result.avg_transit_days = 0
        ELSE IsRounded(call.result.avg_transit_days,
                       SumOf([i \in DeliveredWithEta |-> TruncDays(EtaAfterCreation(i))]),
                       Cardinality(DeliveredWithEta))

\* C9 amended: avg_transit_days is the mean, over the delivered rows with an
\* eta, of eta - created_at rounded down to whole days (toward minus infinity,
\* so an eta half a day before the creation counts -1); 0 when there is no such
\* row.
C9_TransitRoundedDown ==
    call.op = "delivery_stats" =>
        IF DeliveredWithEta = {} THEN call.result.avg_transit_days = 0
        ELSE IsRounded(call.result.avg_transit_days,
                       SumOf([i \in DeliveredWithEta |-> FloorDays(EtaAfterCreation(i))]),
                       Cardinality(DeliveredWithEta))

\* The statistics of a table with a delivered row whose eta is before its
\* creation by less than a day.
C9_Witness ==
    /\ call.op = "delivery_stats"
    /\ \E i \in DeliveredWithEta :
            EtaAfterCreation(i) < 0 /\ EtaAfterCreation(i) > -TicksPerDay
    /\ call.result.avg_transit_days < 0

====
